---- MODULE Spec2Model ----
(***************************************************************************)
(* Item Registry Service: the CRUD handlers of main-checkpoint.py over the *)
(* process-wide items_db mapping, served by one event loop.                *)
(*                                                                         *)
(* A request for create_item or update_item is served in two steps: the    *)
(* framework first resolves Depends(get_current_time) - a plain "def", so  *)
(* it is awaited in the thread pool and other requests may run meanwhile - *)
(* and then validates the body and runs the handler body, which contains   *)
(* no await and is therefore one atomic step.  read_items, read_item and   *)
(* delete_item have no dependency and are one step each.                   *)
(*                                                                         *)
(* Modelling conventions:                                                  *)
(*  - a JSON value is a record [t, s, n, l]: t is its kind ("unset" for a  *)
(*    key missing from the body, "null", "str", "num", "list") and s, n, l *)
(*    hold the string, number or list; prices and taxes are in hundredths; *)
(*  - datetime.now() never goes backwards: clock is the time last read;    *)
(*  - uuid.uuid4() returns a value never returned before: the k-th call    *)
(*    yields ToString(k); a client can name in a request only an id the    *)
(*    service has already handed out, or an id that is never generated;    *)
(*  - response_model validation failing on the returned object is answered *)
(*    by general_exception_handler with status 500.                        *)
(***************************************************************************)
EXTENDS Integers, Sequences, FiniteSets, TLC

VARIABLES
    items_db,    \* the mapping id -> Item
    clock,       \* the time datetime.now() returned last
    uuid_count,  \* number of uuid4() calls made so far
    inflight,    \* requests whose current_time is resolved, handler body not yet run
    resp,        \* the response produced by the last step (NoResponse if none)
    deleted,     \* history: ids for which delete_item has answered 204
    hist,        \* history: the completed requests with their responses, in order
    arrived,     \* number of requests received
    recording    \* whether hist is kept (the serializability specification)

vars == <<items_db, clock, uuid_count, inflight, resp, deleted, hist, arrived, recording>>

----------------------------------------------------------------------------
(* Bounds of the model *)

MaxRequests == 3

(* Field(min_length=1, max_length=100) *)
MinNameLen == 1
MaxNameLen == 100

----------------------------------------------------------------------------
(* JSON values *)

Unset == [t |-> "unset", s |-> "", n |-> 0, l |-> <<>>]
Null == [t |-> "null", s |-> "", n |-> 0, l |-> <<>>]
Str(x) == [t |-> "str", s |-> x, n |-> 0, l |-> <<>>]
Num(x) == [t |-> "num", s |-> "", n |-> x, l |-> <<>>]
Lst(x) == [t |-> "list", s |-> "", n |-> 0, l |-> x]

Fields == {"name", "description", "price", "tax", "tags"}

NoBody == [f \in Fields |-> Unset]

Body(name, description, price, tax, tags) ==
    [f \in Fields |->
        CASE f = "name" -> name
          [] f = "description" -> description
          [] f = "price" -> price
          [] f = "tax" -> tax
          [] f = "tags" -> tags]

Name100 == "nnnnnnnnnnnnnnnnnnnnnnnnnnnnnnnnnnnnnnnnnnnnnnnnnnnnnnnnnnnnnnnnnnnnnnnnnnnnnnnnnnnnnnnnnnnnnnnnnnnn"
Name101 == "nnnnnnnnnnnnnnnnnnnnnnnnnnnnnnnnnnnnnnnnnnnnnnnnnnnnnnnnnnnnnnnnnnnnnnnnnnnnnnnnnnnnnnnnnnnnnnnnnnnnn"

----------------------------------------------------------------------------
(* Pydantic models *)

\* ItemBase / ItemCreate: is value v acceptable for field f
ItemBase(f, v) ==
    CASE f = "name" -> v.t = "str" /\ Len(v.s) >= MinNameLen /\ Len(v.s) <= MaxNameLen
      [] f = "description" -> v.t \in {"unset", "null", "str"}
      [] f = "price" -> v.t = "num" /\ v.n > 0
      [] f = "tax" -> v.t \in {"unset", "null"} \/ (v.t = "num" /\ v.n >= 0)
      [] f = "tags" -> v.t \in {"unset", "list"}

\* ItemUpdate: every field Optional with default None
ItemUpdate(f, v) ==
    CASE f = "name" ->
            v.t \in {"unset", "null"}
            \/ (v.t = "str" /\ Len(v.s) >= MinNameLen /\ Len(v.s) <= MaxNameLen)
      [] f = "description" -> v.t \in {"unset", "null", "str"}
      [] f = "price" -> v.t \in {"unset", "null"} \/ (v.t = "num" /\ v.n > 0)
      [] f = "tax" -> v.t \in {"unset", "null"} \/ (v.t = "num" /\ v.n >= 0)
      [] f = "tags" -> v.t \in {"unset", "null", "list"}

\* the fields a RequestValidationError enumerates
ItemCreateErrors(body) == {f \in Fields : ~ItemBase(f, body[f])}
ItemUpdateErrors(body) == {f \in Fields : ~ItemUpdate(f, body[f])}

\* variant: tags defaults to None instead of the empty list
ItemDict_NullTags(body) ==
    [f \in Fields |-> IF body[f].t # "unset" THEN body[f] ELSE Null]

\* item.dict(): every field, defaults filled in
ItemDict(body) ==
    [f \in Fields |->
        IF body[f].t # "unset" THEN body[f]
        ELSE IF f = "tags" THEN Lst(<<>>) ELSE Null]

\* item_update.dict(exclude_unset=True): the fields the body supplied
ExcludeUnset(body) == {f \in Fields : body[f].t # "unset"}

\* Item: the stored record validated as the response_model
Item(it) ==
    /\ it.id # ""
    /\ \A f \in Fields : it[f].t # "unset" /\ ItemBase(f, it[f])

----------------------------------------------------------------------------
(* Dependencies and generated values *)

\* datetime.now(): the time last read, or a later one
get_current_time == {clock, clock + 1}

uuid4(k) == ToString(k + 1)

\* an id uuid4() never returns
MissingId == "no-such-id"

----------------------------------------------------------------------------
(* Handler bodies as functions of the mapping: each yields the mapping    *)
(* afterwards, the status and the items of the response body              *)

Result(db, status, out) == [db |-> db, status |-> status, out |-> out]

Put(db, k, v) == [x \in DOMAIN db \cup {k} |-> IF x = k THEN v ELSE db[x]]

Del(db, k) == [x \in DOMAIN db \ {k} |-> db[x]]

\* list(items_db.values()): dict order is insertion order, the order of uuid4() calls
Values(db) ==
    LET ids == [k \in 1..MaxRequests |-> uuid4(k - 1)]
        Held(x) == x \in DOMAIN db
        live == SelectSeq(ids, Held)
    IN  [i \in 1..Len(live) |-> db[live[i]]]

\* the response_model check of what a handler returned
Respond(db, ok, out) ==
    IF \A i \in 1..Len(out) : Item(out[i])
    THEN Result(db, ok, out)
    ELSE Result(db, 500, <<>>)

ReadItems(db) == Respond(db, 200, Values(db))

\* variant: items_db.pop(item_id) instead of items_db[item_id]
ReadItem_Pop(db, item_id) ==
    IF item_id \notin DOMAIN db
    THEN Result(db, 404, <<>>)
    ELSE Respond(Del(db, item_id), 200, <<db[item_id]>>)

ReadItem(db, item_id) ==
    IF item_id \notin DOMAIN db
    THEN Result(db, 404, <<>>)
    ELSE Respond(db, 200, <<db[item_id]>>)

NewItem(item_id, item_dict, current_time) ==
    [id |-> item_id,
     name |-> item_dict["name"],
     description |-> item_dict["description"],
     price |-> item_dict["price"],
     tax |-> item_dict["tax"],
     tags |-> item_dict["tags"],
     created_at |-> current_time,
     updated_at |-> current_time]

\* variant: item_id = str(len(items_db) + 1) instead of a uuid
CreateItem_CountId(db, body, current_time, item_id) ==
    IF ItemCreateErrors(body) # {}
    THEN Result(db, 422, <<>>)
    ELSE LET n == ToString(Cardinality(DOMAIN db) + 1)
             new_item == NewItem(n, ItemDict(body), current_time)
         IN  Respond(Put(db, n, new_item), 201, <<new_item>>)

CreateItem(db, body, current_time, item_id) ==
    IF ItemCreateErrors(body) # {}
    THEN Result(db, 422, <<>>)
    ELSE LET new_item == NewItem(item_id, ItemDict(body), current_time)
         IN  Respond(Put(db, item_id, new_item), 201, <<new_item>>)

\* for field, value in update_data.items(): setattr(item_data, field, value)
SetAttrs(item_data, body) ==
    [a \in DOMAIN item_data |->
        IF a \in ExcludeUnset(body) THEN body[a] ELSE item_data[a]]

\* variant: the timestamp assigned to created_at instead of updated_at
Touch_CreatedAt(item_data, current_time) ==
    [item_data EXCEPT !.created_at = current_time]

Touch(item_data, current_time) == [item_data EXCEPT !.updated_at = current_time]

\* variant: PUT replaces the stored item by a newly constructed one
UpdateItem_Replace(db, item_id, body, current_time) ==
    IF ItemUpdateErrors(body) # {}
    THEN Result(db, 422, <<>>)
    ELSE IF item_id \notin DOMAIN db
    THEN Result(db, 404, <<>>)
    ELSE LET item_data == NewItem(item_id, SetAttrs(db[item_id], body), current_time)
         IN  Respond(Put(db, item_id, item_data), 200, <<item_data>>)

UpdateItem(db, item_id, body, current_time) ==
    IF ItemUpdateErrors(body) # {}
    THEN Result(db, 422, <<>>)
    ELSE IF item_id \notin DOMAIN db
    THEN Result(db, 404, <<>>)
    ELSE LET item_data == Touch(SetAttrs(db[item_id], body), current_time)
         IN  Respond(Put(db, item_id, item_data), 200, <<item_data>>)

\* variant: items_db.pop(item_id, None) without the membership test
DeleteItem_Idempotent(db, item_id) == Result(Del(db, item_id), 204, <<>>)

DeleteItem(db, item_id) ==
    IF item_id \notin DOMAIN db
    THEN Result(db, 404, <<>>)
    ELSE Result(Del(db, item_id), 204, <<>>)

----------------------------------------------------------------------------
(* Requests the clients send *)

CreateBodies ==
    { Body(Str("Widget"), Unset, Num(999), Unset, Unset),
      Body(Str(Name100), Str("d"), Num(1), Num(0), Lst(<<"a", "a">>)),
      Body(Str(Name101), Unset, Num(0), Num(-1), Null) }

Patches ==
    { NoBody,
      Body(Unset, Unset, Num(1250), Unset, Unset),
      Body(Null, Unset, Unset, Unset, Unset),
      Body(Str("Gadget"), Unset, Unset, Unset, Lst(<<"b">>)),
      Body(Str(""), Unset, Num(1250), Unset, Unset),
      Body(Str(Name101), Unset, Unset, Num(-1), Unset) }

\* ids a client can put in a path: those handed out so far, and one never generated
KnownIds == {uuid4(k) : k \in 0..(uuid_count - 1)} \cup {MissingId}

Request(op, item_id, body, current_time) ==
    [op |-> op, id |-> item_id, body |-> body, time |-> current_time]

Response(req, status, out) ==
    [op |-> req.op, id |-> req.id, body |-> req.body, time |-> req.time,
     status |-> status, out |-> out]

NoResponse == Response(Request("none", "", NoBody, 0), 0, <<>>)

----------------------------------------------------------------------------
(* The state machine *)

Init ==
    /\ items_db = [x \in {} |-> NoBody]
    /\ clock = 0
    /\ uuid_count = 0
    /\ inflight = {}
    /\ resp = NoResponse
    /\ deleted = {}
    /\ hist = <<>>
    /\ arrived = 0
    /\ recording = FALSE

InitRecording ==
    /\ items_db = [x \in {} |-> NoBody]
    /\ clock = 0
    /\ uuid_count = 0
    /\ inflight = {}
    /\ resp = NoResponse
    /\ deleted = {}
    /\ hist = <<>>
    /\ arrived = 0
    /\ recording = TRUE

\* a new request arrives
Accept ==
    /\ arrived < MaxRequests
    /\ arrived' = arrived + 1

\* the handler of req ends with result r
Answer(req, r) ==
    /\ items_db' = r.db
    /\ resp' = Response(req, r.status, r.out)
    /\ hist' = IF recording THEN Append(hist, resp') ELSE hist
    /\ UNCHANGED recording

read_items ==
    /\ Accept
    /\ Answer(Request("list", "", NoBody, 0), ReadItems(items_db))
    /\ UNCHANGED <<clock, uuid_count, inflight, deleted>>

read_item(item_id) ==
    /\ Accept
    /\ Answer(Request("get", item_id, NoBody, 0), ReadItem(items_db, item_id))
    /\ UNCHANGED <<clock, uuid_count, inflight, deleted>>

delete_item(item_id) ==
    /\ Accept
    /\ Answer(Request("delete", item_id, NoBody, 0), DeleteItem(items_db, item_id))
    /\ deleted' = IF resp'.status = 204 THEN deleted \cup {item_id} ELSE deleted
    /\ UNCHANGED <<clock, uuid_count, inflight>>

\* Depends(get_current_time) of a POST /items or PUT /items/{item_id} request
solve_dependencies(op, item_id, body) ==
    /\ Accept
    /\ \E now \in get_current_time :
        /\ clock' = now
        /\ Request(op, item_id, body, now) \notin inflight
        /\ inflight' = inflight \cup {Request(op, item_id, body, now)}
    /\ resp' = NoResponse
    /\ UNCHANGED <<items_db, uuid_count, deleted, hist, recording>>

create_item(req) ==
    /\ req.op = "create"
    /\ Answer(req, CreateItem(items_db, req.body, req.time, uuid4(uuid_count)))
    /\ uuid_count' = IF resp'.status = 422 THEN uuid_count ELSE uuid_count + 1
    /\ inflight' = inflight \ {req}
    /\ UNCHANGED <<clock, deleted, arrived>>

update_item(req) ==
    /\ req.op = "update"
    /\ Answer(req, UpdateItem(items_db, req.id, req.body, req.time))
    /\ inflight' = inflight \ {req}
    /\ UNCHANGED <<clock, uuid_count, deleted, arrived>>

Next ==
    \/ read_items
    \/ \E item_id \in KnownIds : read_item(item_id)
    \/ \E item_id \in KnownIds : delete_item(item_id)
    \/ \E body \in CreateBodies : solve_dependencies("create", "", body)
    \/ \E item_id \in KnownIds, body \in Patches : solve_dependencies("update", item_id, body)
    \/ \E req \in inflight : create_item(req)
    \/ \E req \in inflight : update_item(req)

Spec == Init /\ [][Next]_vars

SpecRecording == InitRecording /\ [][Next]_vars

----------------------------------------------------------------------------
(* The Item schema and the field rules as the specification words them *)

InRange(v, lo) == v.t = "num" /\ v.n >= lo

\* name 1..100 characters, price > 0, tax null or >= 0, tags a sequence
SchemaField(f, v) ==
    CASE f = "name" -> v.t = "str" /\ Len(v.s) \in 1..100
      [] f = "description" -> v.t \in {"null", "str"}
      [] f = "price" -> v.t = "num" /\ v.n > 0
      [] f = "tax" -> v.t = "null" \/ InRange(v, 0)
      [] f = "tags" -> v.t = "list"

SatisfiesSchema(it) ==
    /\ it.id # ""
    /\ it.created_at \in Nat
    /\ it.updated_at \in Nat
    /\ \A f \in Fields : SchemaField(f, it[f])

\* a Create input with valid fields: optional fields may be omitted
ValidCreateInput(body) ==
    \A f \in Fields :
        \/ SchemaField(f, body[f])
        \/ f \in {"description", "tax", "tags"} /\ body[f].t = "unset"

\* a patch every supplied field of which is null or within the field's range
WellFormedPatch(body) ==
    \A f \in Fields : body[f].t \in {"unset", "null"} \/ SchemaField(f, body[f])

\* the value a created item holds for field f of its input
Stored(body, f) ==
    IF body[f].t # "unset" THEN body[f]
    ELSE IF f = "tags" THEN Lst(<<>>) ELSE Null

----------------------------------------------------------------------------
(* C1: in every reachable state every item held in the registry satisfies  *)
(* the Item schema (name 1..100 characters, price > 0, tax null or >= 0,   *)
(* tags a sequence, id and both timestamps set).                           *)
C1_ItemsSatisfySchema ==
    \A x \in DOMAIN items_db : SatisfiesSchema(items_db[x])

(* C2 as stated: Get, Update and Delete of an id that is not a key of the  *)
(* registry answer 404, for Update whatever the patch holds.               *)
C2_AbsentIdIsNotFound ==
    [][ (resp'.op \in {"get", "update", "delete"} /\ resp'.id \notin DOMAIN items_db)
            => resp'.status = 404 ]_vars

(* C2 amended: Get and Delete of an absent id answer 404; Update of an     *)
(* absent id answers 404 when its patch passes validation and 422 when it  *)
(* does not (the body is validated before the handler looks the id up).    *)
C2_AbsentIdNotFoundUnlessInvalid ==
    [][ (resp'.op \in {"get", "update", "delete"} /\ resp'.id \notin DOMAIN items_db)
            => IF resp'.op = "update" /\ ~WellFormedPatch(resp'.body)
               THEN resp'.status = 422
               ELSE resp'.status = 404 ]_vars

C2_Witness ==
    /\ resp.op = "update"
    /\ resp.id \notin DOMAIN items_db
    /\ resp.body["price"] = Num(1250)
    /\ resp.status = 404

(* C3 as stated: once Delete(id) has succeeded, every later Get, Update    *)
(* and Delete of id answers 404, no response carries an item with that id  *)
(* (List, Create) and the id is never a key of the registry again.         *)
C3_DeletedStaysGone ==
    [][ \A x \in deleted :
            /\ x \notin DOMAIN items_db'
            /\ (resp'.op \in {"get", "update", "delete"} /\ resp'.id = x)
                    => resp'.status = 404
            /\ \A i \in 1..Len(resp'.out) : resp'.out[i].id # x ]_vars

(* C3 amended: as stated, except that a later Update of the deleted id     *)
(* whose patch fails validation answers 422 instead of 404.                *)
C3_DeletedStaysGoneUnlessInvalid ==
    [][ \A x \in deleted :
            /\ x \notin DOMAIN items_db'
            /\ (resp'.op \in {"get", "update", "delete"} /\ resp'.id = x)
                    => IF resp'.op = "update" /\ ~WellFormedPatch(resp'.body)
                       THEN resp'.status = 422
                       ELSE resp'.status = 404
            /\ \A i \in 1..Len(resp'.out) : resp'.out[i].id # x ]_vars

C3_Witness ==
    /\ resp.id \in deleted
    /\ resp.op = "update"
    /\ WellFormedPatch(resp.body)
    /\ resp.status = 404

(* C4: every successful Update leaves the fields its patch does not supply *)
(* as they were, changes no other item, and sets updated_at to a value >=  *)
(* the updated_at the item had immediately before.                         *)
C4_UpdateFrameAndTimestamp ==
    [][ (resp'.op = "update" /\ resp'.status = 200) =>
            /\ DOMAIN items_db' = DOMAIN items_db
            /\ \A x \in DOMAIN items_db \ {resp'.id} : items_db'[x] = items_db[x]
            /\ \A f \in Fields :
                    resp'.body[f].t = "unset"
                        => items_db'[resp'.id][f] = items_db[resp'.id][f]
            /\ items_db'[resp'.id].updated_at >= items_db[resp'.id].updated_at ]_vars

(* C5: in every reachable state every item has created_at <= updated_at.   *)
C5_CreatedBeforeUpdated ==
    \A x \in DOMAIN items_db : items_db[x].created_at <= items_db[x].updated_at

C5_Witness ==
    \E x \in DOMAIN items_db : items_db[x].created_at < items_db[x].updated_at

(* C6: while an item is in the registry its id and created_at keep the     *)
(* values Create gave them, whatever request is served.                    *)
C6_IdAndCreatedAtImmutable ==
    [][ \A x \in DOMAIN items_db :
            /\ items_db[x].id = x
            /\ x \in DOMAIN items_db' =>
                    /\ items_db'[x].id = x
                    /\ items_db'[x].created_at = items_db[x].created_at ]_vars

C6_Witness ==
    /\ resp.op = "update"
    /\ resp.status = 200
    /\ resp.body["price"] = Num(1250)
    /\ resp.time > items_db[resp.id].created_at
    /\ Cardinality(DOMAIN items_db) = 2

(* C7: a Create with valid fields answers 201 with one item whose id is    *)
(* non-empty and not a key of the registry before, whose created_at equals *)
(* its updated_at and whose fields equal the input (tags empty, tax and    *)
(* description null when omitted); afterwards Get of that id returns that  *)
(* item and the registry is the old one plus that item.                    *)
C7_CreateStoresInput ==
    [][ (resp'.op = "create" /\ ValidCreateInput(resp'.body)) =>
            /\ resp'.status = 201
            /\ Len(resp'.out) = 1
            /\ resp'.out[1].id # ""
            /\ resp'.out[1].id \notin DOMAIN items_db
            /\ resp'.out[1].created_at = resp'.out[1].updated_at
            /\ \A f \in Fields : resp'.out[1][f] = Stored(resp'.body, f)
            /\ ReadItem(items_db', resp'.out[1].id)
                    = Result(items_db', 200, <<resp'.out[1]>>)
            /\ DOMAIN items_db' = DOMAIN items_db \cup {resp'.out[1].id}
            /\ Cardinality(DOMAIN items_db') = Cardinality(DOMAIN items_db) + 1
            /\ \A x \in DOMAIN items_db : items_db'[x] = items_db[x] ]_vars

C7_Witness ==
    /\ resp.op = "create"
    /\ resp.status = 201
    /\ resp.body["tags"] = Unset
    /\ Cardinality(DOMAIN items_db) = 2

----------------------------------------------------------------------------
(* Serial executions of the recorded requests *)

Perms(n) == {p \in [1..n -> 1..n] : \A i, j \in 1..n : p[i] = p[j] => i = j}

\* request e served alone on mapping db, its clock reading and uuid as recorded
Serve(db, e) ==
    CASE e.op = "list" -> ReadItems(db)
      [] e.op = "get" -> ReadItem(db, e.id)
      [] e.op = "delete" -> DeleteItem(db, e.id)
      [] e.op = "create" ->
            CreateItem(db, e.body, e.time, IF Len(e.out) = 1 THEN e.out[1].id ELSE "")
      [] e.op = "update" -> UpdateItem(db, e.id, e.body, e.time)

RECURSIVE DbAfter(_, _)
DbAfter(p, k) ==
    IF k = 0 THEN [x \in {} |-> NoBody]
    ELSE Serve(DbAfter(p, k - 1), hist[p[k]]).db

\* the request stamped an item with its clock reading
Stamps(e) == e.op \in {"create", "update"} /\ e.status \in {200, 201, 500}

\* one at a time, a later request never reads an earlier time
TimeOrdered(p) ==
    \A i, j \in 1..Len(hist) :
        (i < j /\ Stamps(hist[p[i]]) /\ Stamps(hist[p[j]]))
            => hist[p[i]].time <= hist[p[j]].time

Replays(p) ==
    /\ \A k \in 1..Len(hist) :
            LET r == Serve(DbAfter(p, k - 1), hist[p[k]])
            IN  r.status = hist[p[k]].status /\ r.out = hist[p[k]].out
    /\ DbAfter(p, Len(hist)) = items_db

C9_UpdateValidatesAsCreate ==
    resp.op = "update" =>
        (resp.status = 422 <=>
            \E f \in {"name", "price", "tax", "tags"} :
                resp.body[f].t # "unset" /\ ~ItemBase(f, resp.body[f]))

(* C10: a request answered 404 or 422, and every List and Get, leaves the  *)
(* registry exactly as it was.                                             *)
C10_ErrorsAndReadsChangeNothing ==
    [][ (resp'.status \in {404, 422} \/ resp'.op \in {"list", "get"})
            => items_db' = items_db ]_vars

C10_Witness ==
    /\ resp.op = "update"
    /\ resp.status = 422
    /\ resp.id \in DOMAIN items_db
    /\ resp.body["price"] = Num(1250)

====
